---- MODULE Spec2Model ----
(***************************************************************************)
(* A model of the WebSocket endpoint of src/ws.go: websocketHandler, the   *)
(* read loop handleIncomingMessages, the send loop sendMessages and        *)
(* terminate, running as goroutines over one hijacked net.Conn.            *)
(*                                                                         *)
(* Granularity: every conn.Read, conn.Write, channel operation and         *)
(* conn.Close is one step of the goroutine that makes it; the local        *)
(* computation that follows a call (parsing, unmasking, dispatch) belongs  *)
(* to the same step.  Bytes are numbers 0..255.                            *)
(***************************************************************************)
EXTENDS Integers, Sequences, FiniteSets, TLC

\* ---------------------------------------------------------------- bounds
\* Header fields a request carries besides Upgrade and Sec-WebSocket-Key.
MaxOtherHeaders == 0
\* Frames (or frame prefixes) the client sends on one connection.
MaxClientFrames == 1
\* Text frames sendMessages gets to write successfully (ticker firings).
MaxTicks == 1
\* Times the transport hands the server only a prefix of what is in flight.
MaxSplits == 1

\* Longest payload of the masking round trip.
MaxPayload == 5

\* Frames the read loop decodes from a stream of whole frames before the
\* run is cut off.
MaxDecoded == 3

\* The iterations of the handler's loop over r.Header: one per header field.
Gens == 1..(MaxOtherHeaders + 2)

\* ------------------------------------------------------------ byte helpers
Min(a, b) == IF a < b THEN a ELSE b

\* frameHeader[i] & 0b1000_0000 != 0            (ws.go:144, 147)
Bit7(b) == b \div 128

\* frameHeader[0] & 0b0000_1111                 (ws.go:146)
Low4(b) == b % 16

\* frameHeader[1] & 0b0111_1111                 (ws.go:148)
Low7(b) == b % 128

RECURSIVE XorBits(_, _, _)
XorBits(a, b, n) ==
    IF n = 0 THEN 0
    ELSE (((a % 2) + (b % 2)) % 2) + 2 * XorBits(a \div 2, b \div 2, n - 1)

\* Byte addition in the place of ^.
Xor_Add(a, b) == (a + b) % 256

\* Go's ^ on two bytes.
Xor(a, b) == XorBits(a, b, 8)

\* make([]byte, n): n zero bytes.
Zeros(n) == [i \in 1..n |-> 0]

\* for i := range payload { payload[i] ^= maskKey[i%4] }   (ws.go:212-214, 296-299)
\* Sequences are 1-based: byte i (0-based) is element i+1.
XorMask(payload, key) ==
    [i \in 1..Len(payload) |-> Xor(payload[i], key[((i - 1) % 4) + 1])]

\* int(extLen[0])<<8 | int(extLen[1])           (ws.go:166)
BE16(extLen) == extLen[1] * 256 + extLen[2]

RECURSIVE BEValue(_, _)
BEValue(bytes, n) ==
    IF n = 0 THEN 0 ELSE BEValue(bytes, n - 1) * 256 + bytes[n]

\* uint64(extLen[0])<<56 | ... | uint64(extLen[7])   (ws.go:177-178)
BE64(extLen) == BEValue(extLen, 8)

\* ------------------------------------------------------------- accept key
\* The string "258EAFA5-E914-47DA-95CA-C5AB0DC85B11" (ws.go:65), as bytes.
Guid ==
    <<50, 53, 56, 69, 65, 70, 65, 53, 45, 69, 57, 49, 52, 45, 52, 55, 68, 65,
      45, 57, 53, 67, 65, 45, 67, 53, 65, 66, 48, 68, 67, 56, 53, 66, 49, 49>>

\* The key of the RFC 6455 example, "dGhlIHNhbXBsZSBub25jZQ==" (ws.go:28, 54).
SampleKey == "dGhlIHNhbXBsZSBub25jZQ=="
SampleKeyBytes ==
    <<100, 71, 104, 108, 73, 72, 78, 104, 98, 88, 66, 115, 90, 83, 66, 117,
      98, 50, 53, 106, 90, 81, 61, 61>>

\* []byte(key): the bytes of the header values the requests carry.
Bytes(key) == IF key = SampleKey THEN SampleKeyBytes ELSE <<>>

\* SHA-1 (crypto/sha1, called at ws.go:37 and 65-66).  A 32-bit word is a
\* pair <<hi, lo>> of 16-bit halves.

\* One bit of the round functions: Ch, Parity and Maj.
BitF(kind, x, y, z) ==
    CASE kind = "ch" -> IF x = 1 THEN y ELSE z
      [] kind = "parity" -> (x + y + z) % 2
      [] kind = "maj" -> IF x + y + z >= 2 THEN 1 ELSE 0

RECURSIVE BitsF(_, _, _, _, _)
BitsF(kind, x, y, z, n) ==
    IF n = 0 THEN 0
    ELSE BitF(kind, x % 2, y % 2, z % 2)
         + 2 * BitsF(kind, x \div 2, y \div 2, z \div 2, n - 1)

WordF(kind, b, c, d) ==
    <<BitsF(kind, b[1], c[1], d[1], 16), BitsF(kind, b[2], c[2], d[2], 16)>>

Xor32(a, b) == WordF("parity", a, b, <<0, 0>>)

\* Addition modulo 2^32.
Add32(a, b) ==
    LET lo == a[2] + b[2]
        hi == a[1] + b[1] + (lo \div 65536)
    IN  <<hi % 65536, lo % 65536>>

\* Rotation to the left by n bits, 0 < n < 16, and by 30 bits.
Rotl(x, n) ==
    LET p == 2 ^ n
        q == 2 ^ (16 - n)
    IN  <<((x[1] * p) % 65536) + (x[2] \div q), ((x[2] * p) % 65536) + (x[1] \div q)>>
Rotl30(x) == Rotl(<<x[2], x[1]>>, 14)

\* The big-endian words of a 64-byte block.
BlockWords(block) ==
    [i \in 1..16 |-> <<block[4 * i - 3] * 256 + block[4 * i - 2],
                       block[4 * i - 1] * 256 + block[4 * i]>>]

\* The message schedule: w extended by n more words (the range is split in
\* halves, and the first half evaluated before the second, so that the
\* evaluation stays shallow).
ScheduleWord(w, t) ==
    Rotl(Xor32(WordF("parity", w[t - 3], w[t - 8], w[t - 14]), w[t - 16]), 1)

RECURSIVE Extend(_, _)
Extend(w, n) ==
    IF n = 1 THEN Append(w, ScheduleWord(w, Len(w) + 1))
    ELSE LET first == Extend(w, n \div 2)
         IN  IF Len(first) > 0 THEN Extend(first, n - (n \div 2)) ELSE <<>>

\* The 80 words of the schedule of a block of 16 words.
Schedule(w) == Extend(w, 64)

RoundKind(t) ==
    CASE t <= 20 -> "ch" [] t <= 40 -> "parity" [] t <= 60 -> "maj" [] OTHER -> "parity"

\* 0x5A827999, 0x6ED9EBA1, 0x8F1BBCDC, 0xCA62C1D6
RoundK(t) ==
    CASE t <= 20 -> <<23170, 31129>> [] t <= 40 -> <<28377, 60321>>
      [] t <= 60 -> <<36635, 48348>> [] OTHER -> <<51810, 49622>>

\* Round t on the working variables v = <<a, b, c, d, e>>.
Round(v, w, t) ==
    LET f == WordF(RoundKind(t), v[2], v[3], v[4])
        tmp == Add32(Add32(Add32(Add32(Rotl(v[1], 5), f), v[5]), RoundK(t)), w[t])
    IN  <<tmp, v[1], Rotl30(v[2]), v[3], v[4]>>

\* Rounds from..to, split in halves like Extend.
RECURSIVE Rounds(_, _, _, _)
Rounds(v, w, from, to) ==
    IF from = to THEN Round(v, w, from)
    ELSE LET mid == (from + to) \div 2
             first == Rounds(v, w, from, mid)
         IN  IF Len(first) = 5 THEN Rounds(first, w, mid + 1, to) ELSE <<>>

\* The chaining value after the blocks of msg from byte `at` on.
RECURSIVE Blocks(_, _, _)
Blocks(h, msg, at) ==
    IF at > Len(msg) THEN h
    ELSE LET w == Schedule(BlockWords(SubSeq(msg, at, at + 63)))
             v == Rounds(h, w, 1, 80)
             next == <<Add32(h[1], v[1]), Add32(h[2], v[2]), Add32(h[3], v[3]),
                       Add32(h[4], v[4]), Add32(h[5], v[5])>>
         IN  IF Len(next) = 5 THEN Blocks(next, msg, at + 64) ELSE <<>>

\* The message with its padding: 0x80, zeros, the 64-bit length in bits.
Padded(msg) ==
    LET bits == 8 * Len(msg)
        k == (64 - ((Len(msg) + 9) % 64)) % 64
    IN  msg \o <<128>> \o [i \in 1..k |-> 0]
            \o <<0, 0, 0, 0, 0, 0, bits \div 256, bits % 256>>

\* 0x67452301, 0xEFCDAB89, 0x98BADCFE, 0x10325476, 0xC3D2E1F0
Sha1Init ==
    <<<<26437, 8961>>, <<61389, 43913>>, <<39098, 56574>>, <<4146, 21622>>,
      <<50130, 57840>>>>

\* h.Write(msg); h.Sum(nil): the 20 bytes of the digest.
Sha1Sum(msg) ==
    LET h == Blocks(Sha1Init, Padded(msg), 1)
    IN  [i \in 1..20 |->
            LET half == h[((i - 1) \div 4) + 1][(((i - 1) % 4) \div 2) + 1]
            IN  IF i % 2 = 1 THEN half \div 256 ELSE half % 256]

\* The alphabet of base64.StdEncoding: A-Z a-z 0-9 + /
Base64Alphabet ==
    <<65, 66, 67, 68, 69, 70, 71, 72, 73, 74, 75, 76, 77, 78, 79, 80, 81, 82,
      83, 84, 85, 86, 87, 88, 89, 90, 97, 98, 99, 100, 101, 102, 103, 104,
      105, 106, 107, 108, 109, 110, 111, 112, 113, 114, 115, 116, 117, 118,
      119, 120, 121, 122, 48, 49, 50, 51, 52, 53, 54, 55, 56, 57, 43, 47>>

\* One group of 1 to 3 bytes as 4 characters, '=' (61) for padding.
Base64Group(g) ==
    LET n == Len(g)
        v == g[1] * 65536 + (IF n >= 2 THEN g[2] * 256 ELSE 0) + (IF n = 3 THEN g[3] ELSE 0)
    IN  <<Base64Alphabet[(v \div 262144) + 1],
          Base64Alphabet[((v \div 4096) % 64) + 1],
          IF n >= 2 THEN Base64Alphabet[((v \div 64) % 64) + 1] ELSE 61,
          IF n = 3 THEN Base64Alphabet[(v % 64) + 1] ELSE 61>>

\* base64.StdEncoding.EncodeToString (ws.go:66)
RECURSIVE EncodeToString(_)
EncodeToString(bytes) ==
    IF bytes = <<>> THEN <<>>
    ELSE Base64Group(SubSeq(bytes, 1, Min(3, Len(bytes))))
             \o EncodeToString(SubSeq(bytes, 4, Len(bytes)))

\* The accept key computed without the GUID.
AcceptKey_NoGuid(key) == EncodeToString(Sha1Sum(Bytes(key)))

\* ws.go:65-66: base64(SHA1(key + GUID))
AcceptKey(key) == EncodeToString(Sha1Sum(Bytes(key) \o Guid))

\* "s3pPLMBiTxaQ9kYGzzhZRbK+xOo=" (ws.go:56)
SampleAccept ==
    <<115, 51, 112, 80, 76, 77, 66, 105, 84, 120, 97, 81, 57, 107, 89, 71,
      122, 122, 104, 90, 82, 98, 75, 43, 120, 79, 111, 61>>

\* ------------------------------------------------------------ frame bytes
\* The client's masking key (0x37 0xFA 0x21 0x3D, the example of ws.go:284).
ClientKey == <<55, 250, 33, 61>>

\* A masked client frame: header byte, MASK|len, key, masked payload.
ClientFrame(b0, payload) ==
    <<b0, 128 + Len(payload)>> \o ClientKey \o XorMask(payload, ClientKey)

TextHi == ClientFrame(129, <<104, 105>>)
\* 81 02 68 69
UnmaskedHi == <<129, 2, 104, 105>>
PingAbc == ClientFrame(137, <<97, 98, 99>>)
PingEmpty == ClientFrame(137, <<>>)
CloseNormal == ClientFrame(136, <<3, 232>>)
CloseEmpty == ClientFrame(136, <<>>)
\* 83 81 ...: FIN, the reserved opcode 3, one payload byte.
Reserved3 == ClientFrame(131, <<1>>)
\* L = 126, extended length 0x0102 = 258; the first 3 payload bytes.
Text126 == <<129, 254, 1, 2>> \o ClientKey \o XorMask(<<104, 105, 33>>, ClientKey)
\* L = 127, extended length 2.
Text127 ==
    <<129, 255, 0, 0, 0, 0, 0, 0, 0, 2>> \o ClientKey \o XorMask(<<104, 105>>, ClientKey)

ClientFrames ==
    {TextHi, UnmaskedHi, PingAbc, PingEmpty, CloseNormal, CloseEmpty, Reserved3,
     Text126, Text127}

\* The values rand.Read may put in mask_key (ws.go:286-287): two of them.
RandKeys == {<<55, 250, 33, 61>>, <<1, 2, 3, 4>>}

\* The frame without its masked payload.
TextFrame_HeaderOnly(mask_key) == <<129, 130>> \o mask_key

\* The frame sendMessages builds (ws.go:294-333).
TextFrame(mask_key) ==
    <<129, 130>> \o mask_key \o XorMask(<<104, 105>>, mask_key)

\* pongFrame (ws.go:234)
pongFrame == <<138, 0>>

\* A close frame whose length field leaves out the reason text.
closeFrameWithReason_Short == <<136, 2, 3, 232, 79, 75>>

\* closeFrameWithReason (ws.go:366-370)
closeFrameWithReason == <<136, 4, 3, 232, 79, 75>>

\* ------------------------------------------------------------------ state
VARIABLES
    req,            \* the request: Upgrade, Sec-WebSocket-Key, hijack support, header count
    hpc,            \* websocketHandler's position
    it,             \* iterations of the range-over-headers loop entered so far
    httpStatus,     \* status written with http.Error (0: none)
    hijacked,       \* Hijack() returned the raw connection
    acceptKey,      \* the handler's acceptKey (<<>> before it is computed)
    chanClosed,     \* per iteration: terminationChan is closed
    spc,            \* per iteration: sendMessages' position
    rpc,            \* per iteration: handleIncomingMessages' position
    fr,             \* per iteration: the read loop's locals for the frame being read
    rerr,           \* per iteration: the read step that failed ("none" if none did)
    connClosed,     \* conn.Close() has been called
    peer,           \* the client's end: "open", "eof" (it closed), "reset", "gone"
    rx,             \* every byte that has arrived from the client
    rpos,           \* how many bytes of rx conn.Read has consumed
    inflight,       \* bytes the client has sent that have not arrived yet
    sendsLeft,      \* frames the client may still send
    splitsLeft,     \* partial deliveries the transport may still make
    wire,           \* every frame written to the stream, in order
    decoded,        \* every frame the read loops finished decoding, in order
    terminateCalls, \* calls of terminate
    lateIO,         \* a read or a write was issued after conn.Close()
    crashed         \* a goroutine panicked outside the handler: the process is dead

vars == <<req, hpc, it, httpStatus, hijacked, acceptKey, chanClosed, spc, rpc, fr, rerr,
          connClosed, peer, rx, rpos, inflight, sendsLeft, splitsLeft, wire, decoded,
          terminateCalls, lateIO, crashed>>

handlerVars == <<hpc, it, httpStatus, hijacked, acceptKey>>
sendVars == <<spc>>
readVars == <<rpc, fr, rerr, decoded>>
ioVars == <<wire, lateIO>>
clientVars == <<peer, rx, inflight, sendsLeft, splitsLeft>>

\* The locals of one iteration of the read loop before the header is read.
NoFrame ==
    [fin |-> FALSE, opcode |-> 0, masked |-> FALSE, L |-> 0, payloadLen |-> 0,
     extLen |-> <<>>, maskKey |-> <<>>, start |-> 0]

\* A request: the Upgrade header's value ("" when absent), the key ("" when
\* absent), what the ResponseWriter offers, and the other header fields.
Requests ==
    [upgrade : {"websocket", "Websocket", "h2c", ""},
     key : {SampleKey, ""},
     hijack : {"ok", "fails", "unsupported"},
     others : 0..MaxOtherHeaders]

\* len(r.Header): one entry per header field present.
NumHeaders(r) ==
    (IF r.upgrade = "" THEN 0 ELSE 1) + (IF r.key = "" THEN 0 ELSE 1) + r.others

\* The state when the HTTP server calls websocketHandler.
Init ==
    /\ req \in Requests
    /\ hpc = "check"
    /\ it = 0
    /\ httpStatus = 0
    /\ hijacked = FALSE
    /\ acceptKey = <<>>
    /\ chanClosed = [g \in Gens |-> FALSE]
    /\ spc = [g \in Gens |-> "idle"]
    /\ rpc = [g \in Gens |-> "idle"]
    /\ fr = [g \in Gens |-> NoFrame]
    /\ rerr = [g \in Gens |-> "none"]
    /\ connClosed = FALSE
    /\ peer = "open"
    /\ rx = <<>>
    /\ rpos = 0
    /\ inflight = <<>>
    /\ sendsLeft = MaxClientFrames
    /\ splitsLeft = MaxSplits
    /\ wire = <<>>
    /\ decoded = <<>>
    /\ terminateCalls = 0
    /\ lateIO = FALSE
    /\ crashed = FALSE

\* ------------------------------------------------------------- the stream
\* Bytes that have arrived and were not read yet.
inbuf == SubSeq(rx, rpos + 1, Len(rx))

\* conn.Write succeeds while the connection is open at both ends.
WriteOK == ~connClosed /\ peer # "reset"

\* One conn.Write of `bytes` by iteration g's goroutines: the bytes reach the
\* stream if the write succeeds; a write on the closed connection is noted.
Write(g, what, bytes) ==
    /\ wire' = IF WriteOK
               THEN Append(wire, [g |-> g, what |-> what, bytes |-> bytes])
               ELSE wire
    /\ lateIO' = (lateIO \/ connClosed)

\* conn.Read returns an error: the connection was closed here, or the peer
\* is gone and nothing is left to read.
ReadErr ==
    \/ connClosed
    \/ peer = "reset"
    \/ (peer = "eof" /\ inbuf = <<>> /\ inflight = <<>>)

\* conn.Read returns (it blocks while nothing has arrived on a live stream).
ReadReturns == ReadErr \/ inbuf # <<>>

\* conn.Read(buf) with len(buf) = n: the bytes available, at most n, are
\* copied to the front of the zeroed buffer.
ReadCount(n) == Min(n, Len(inbuf))
ReadBuf(n) == SubSeq(inbuf, 1, ReadCount(n)) \o Zeros(n - ReadCount(n))

\* ---------------------------------------------------------------- terminate
\* terminate's conn.Write(closeFrameWithReason); its error is only printed
\* (ws.go:366-378).
terminateWrite(g) == Write(g, "close", closeFrameWithReason)

\* conn.Close(): the socket is released, and with it what it had buffered
\* and the client's end of it.
connClose ==
    /\ connClosed' = TRUE
    /\ rx' = <<>> /\ rpos' = 0 /\ inflight' = <<>>
    /\ peer' = "gone" /\ sendsLeft' = 0 /\ splitsLeft' = 0

\* A terminate that sends its close frame but leaves the connection open.
terminateClose_Leak ==
    UNCHANGED <<connClosed, rx, rpos, inflight, peer, sendsLeft, splitsLeft>>

\* terminate's SetWriteDeadline, CloseWrite and conn.Close (ws.go:382-393).
terminateClose == connClose

\* close(terminationChan): closing a closed channel panics, and a panic in a
\* goroutine that is not the handler's ends the process.
CloseChan(g) ==
    IF chanClosed[g]
    THEN crashed' = TRUE /\ UNCHANGED chanClosed
    ELSE chanClosed' = [chanClosed EXCEPT ![g] = TRUE] /\ UNCHANGED crashed

AfterCloseChan(g) == IF chanClosed[g] THEN "panic" ELSE "done"

\* --------------------------------------------------------- websocketHandler
\* An Upgrade check that writes the 400 and goes on (no return).
HandlerCheck_NoReturn ==
    /\ hpc = "check"
    /\ hpc' = "hijack"
    /\ httpStatus' = IF req.upgrade # "websocket" THEN 400 ELSE httpStatus
    /\ UNCHANGED <<req, acceptKey, it, hijacked, chanClosed, sendVars, readVars, connClosed,
                   clientVars, rpos, ioVars, terminateCalls, crashed>>

\* ws.go:21-24: the Upgrade check, http.Error 400.
HandlerCheck ==
    /\ hpc = "check"
    /\ IF req.upgrade # "websocket"
       THEN hpc' = "done" /\ httpStatus' = 400
       ELSE hpc' = "hijack" /\ UNCHANGED httpStatus
    /\ UNCHANGED <<req, acceptKey, it, hijacked, chanClosed, sendVars, readVars, connClosed,
                   clientVars, rpos, ioVars, terminateCalls, crashed>>

\* A handler that writes the 500 for a failed Hijack and goes on (no return).
HandlerHijack_NoReturn ==
    /\ hpc = "hijack"
    /\ acceptKey' = AcceptKey(req.key)
    /\ CASE req.hijack = "unsupported" ->
              hpc' = "panic" /\ UNCHANGED <<httpStatus, hijacked>>
         [] req.hijack = "fails" ->
              hpc' = "range" /\ httpStatus' = 500 /\ UNCHANGED hijacked
         [] OTHER ->
              hpc' = "range" /\ hijacked' = TRUE /\ UNCHANGED httpStatus
    /\ UNCHANGED <<req, it, chanClosed, sendVars, readVars, connClosed, clientVars,
                   rpos, ioVars, terminateCalls, crashed>>

\* ws.go:65-75: acceptKey is computed; then the type assertion's ok is
\* dropped, so a ResponseWriter that is no Hijacker leaves hijacker nil and
\* hijacker.Hijack() panics in the handler's goroutine (net/http recovers it
\* and drops the connection).
HandlerHijack ==
    /\ hpc = "hijack"
    /\ acceptKey' = AcceptKey(req.key)
    /\ CASE req.hijack = "unsupported" ->
              hpc' = "panic" /\ UNCHANGED <<httpStatus, hijacked>>
         [] req.hijack = "fails" ->
              hpc' = "done" /\ httpStatus' = 500 /\ UNCHANGED hijacked
         [] OTHER ->
              hpc' = "range" /\ hijacked' = TRUE /\ UNCHANGED httpStatus
    /\ UNCHANGED <<req, it, chanClosed, sendVars, readVars, connClosed, clientVars,
                   rpos, ioVars, terminateCalls, crashed>>

\* An iteration that starts the two loops without writing the 101 response.
HandlerRange_NoHandshake ==
    /\ hpc = "range"
    /\ ~crashed
    /\ it < NumHeaders(req)
    /\ it' = it + 1
    /\ spc' = [spc EXCEPT ![it + 1] = "select"]
    /\ rpc' = [rpc EXCEPT ![it + 1] = "select"]
    /\ hpc' = "wait"
    /\ UNCHANGED <<req, acceptKey, httpStatus, hijacked, chanClosed, fr, rerr, decoded,
                   connClosed, clientVars, rpos, ioVars, terminateCalls, crashed>>

\* ws.go:81-103: one iteration of `for name, values := range r.Header`: the
\* 101 response is written and flushed, a new terminationChan is made, and
\* sendMessages and handleIncomingMessages are started on it.
HandlerRange ==
    /\ hpc = "range"
    /\ ~crashed
    /\ it < NumHeaders(req)
    /\ it' = it + 1
    /\ Write(it + 1, "handshake", <<>>)
    /\ spc' = [spc EXCEPT ![it + 1] = "select"]
    /\ rpc' = [rpc EXCEPT ![it + 1] = "select"]
    /\ hpc' = "wait"
    /\ UNCHANGED <<req, acceptKey, httpStatus, hijacked, chanClosed, fr, rerr, decoded,
                   connClosed, clientVars, rpos, terminateCalls, crashed>>

\* ws.go:106-107: <-terminationChan, then the call of terminate.
HandlerWait ==
    /\ hpc = "wait"
    /\ ~crashed
    /\ chanClosed[it]
    /\ hpc' = "tWrite"
    /\ terminateCalls' = terminateCalls + 1
    /\ UNCHANGED <<req, acceptKey, it, httpStatus, hijacked, chanClosed, sendVars, readVars,
                   connClosed, clientVars, rpos, ioVars, crashed>>

HandlerTerminateWrite ==
    /\ hpc = "tWrite"
    /\ ~crashed
    /\ terminateWrite(it)
    /\ hpc' = "tClose"
    /\ UNCHANGED <<req, acceptKey, it, httpStatus, hijacked, chanClosed, sendVars, readVars,
                   connClosed, clientVars, rpos, terminateCalls, crashed>>

HandlerTerminateClose ==
    /\ hpc = "tClose"
    /\ ~crashed
    /\ terminateClose
    /\ hpc' = "range"
    /\ UNCHANGED <<req, acceptKey, it, httpStatus, hijacked, chanClosed, sendVars, readVars,
                   ioVars, terminateCalls, crashed>>

\* ws.go:75, 109: the loop is over, the deferred conn.Close() runs.
HandlerReturn ==
    /\ hpc = "range"
    /\ ~crashed
    /\ it >= NumHeaders(req)
    /\ connClose
    /\ hpc' = "done"
    /\ UNCHANGED <<req, acceptKey, it, httpStatus, hijacked, chanClosed, sendVars, readVars,
                   ioVars, terminateCalls, crashed>>

websocketHandler ==
    \/ HandlerCheck
    \/ HandlerHijack
    \/ HandlerRange
    \/ HandlerWait
    \/ HandlerTerminateWrite
    \/ HandlerTerminateClose
    \/ HandlerReturn

\* -------------------------------------------------------------- sendMessages
\* Text frames written to the stream so far.
TextsSent ==
    Cardinality({i \in DOMAIN wire : wire[i].what = "text"})

\* ws.go:257-259: the select takes the closed terminationChan.
SendStop(g) ==
    /\ spc[g] = "select"
    /\ ~crashed
    /\ chanClosed[g]
    /\ spc' = [spc EXCEPT ![g] = "done"]
    /\ UNCHANGED <<req, handlerVars, chanClosed, readVars, connClosed, clientVars,
                   rpos, ioVars, terminateCalls, crashed>>

\* ws.go:260-348: the select takes the tick (it may, whether or not
\* terminationChan is closed); the frame is built with a fresh mask key and
\* written; a failed write closes terminationChan and ends the loop.
SendTick(g) ==
    /\ spc[g] = "select"
    /\ ~crashed
    /\ WriteOK => TextsSent < MaxTicks
    /\ \E mask_key \in RandKeys : Write(g, "text", TextFrame(mask_key))
    /\ IF WriteOK
       THEN UNCHANGED <<spc, chanClosed, crashed>>
       ELSE /\ CloseChan(g)
            /\ spc' = [spc EXCEPT ![g] = AfterCloseChan(g)]
    /\ UNCHANGED <<req, handlerVars, readVars, connClosed, clientVars, rpos,
                   terminateCalls>>

sendMessages(g) == SendStop(g) \/ SendTick(g)

\* ---------------------------------------------------- handleIncomingMessages
\* ws.go:144-148: the fields of the 2-byte header.
ParseHeader(frameHeader, at) ==
    [fin |-> Bit7(frameHeader[1]) = 1,
     opcode |-> Low4(frameHeader[1]),
     masked |-> Bit7(frameHeader[2]) = 1,
     L |-> Low7(frameHeader[2]),
     payloadLen |-> Low7(frameHeader[2]),
     extLen |-> <<>>, maskKey |-> <<>>, start |-> at]

\* ws.go:166: case 126 assigns the outer payloadLen.
PayloadLen16(payloadLen, extLen) == BE16(extLen)

\* ws.go:177-180: case 127 declares a new payloadLen with := and prints it;
\* the outer payloadLen, the one used below, keeps the value 127.
PayloadLen64(payloadLen, extLen) == payloadLen

\* ws.go:225-241: what the loop does with a frame whose payload it has read.
Dispatch(f) ==
    CASE f.opcode = 1 /\ f.fin -> "message"
      [] f.opcode = 8 -> "terminate"
      [] f.opcode = 9 -> "pong"
      [] f.opcode = 10 -> "pongReceived"
      [] OTHER -> "unhandled"

\* ws.go:185, 200: the step after the length is known.
AfterMask(f) == IF f.payloadLen > 0 THEN "payload" ELSE "select"
AfterLength(f) == IF f.masked THEN "mask" ELSE AfterMask(f)

\* One finished frame, as recorded in decoded.
Decoded(g, f, payload, did) ==
    [g |-> g, fin |-> f.fin, opcode |-> f.opcode, masked |-> f.masked, L |-> f.L,
     payloadLen |-> f.payloadLen, payload |-> payload, did |-> did]

\* The loop goes to its next read with locals f, or, when nothing is left to
\* read of this frame (payloadLen = 0, ws.go:200), to its next iteration.
ReadGoes(g, f, pc) ==
    /\ rpc' = [rpc EXCEPT ![g] = pc]
    /\ IF pc = "select"
       THEN /\ fr' = [fr EXCEPT ![g] = NoFrame]
            /\ decoded' = Append(decoded, Decoded(g, f, <<>>, "none"))
       ELSE /\ fr' = [fr EXCEPT ![g] = f]
            /\ UNCHANGED decoded

\* A read failure that ends the goroutine without closing terminationChan.
ReadFail_NoSignal(g, at) ==
    /\ rpc' = [rpc EXCEPT ![g] = "done"]
    /\ rerr' = [rerr EXCEPT ![g] = at]
    /\ fr' = [fr EXCEPT ![g] = NoFrame]
    /\ UNCHANGED <<decoded, rpos, chanClosed, crashed>>

\* ws.go:126-131, 161-165, 171-175, 188-192, 202-206: a failed read closes
\* terminationChan and returns.
ReadFail(g, at) ==
    /\ CloseChan(g)
    /\ rpc' = [rpc EXCEPT ![g] = AfterCloseChan(g)]
    /\ rerr' = [rerr EXCEPT ![g] = at]
    /\ fr' = [fr EXCEPT ![g] = NoFrame]
    /\ UNCHANGED <<decoded, rpos>>

\* ws.go:116-121: the non-blocking check of terminationChan.
ReadSelect(g) ==
    /\ rpc[g] = "select"
    /\ ~crashed
    /\ IF chanClosed[g]
       THEN rpc' = [rpc EXCEPT ![g] = "done"] /\ UNCHANGED lateIO
       ELSE /\ rpc' = [rpc EXCEPT ![g] = "header"]
            /\ lateIO' = (lateIO \/ connClosed)
    /\ UNCHANGED <<req, handlerVars, chanClosed, sendVars, fr, rerr, decoded,
                   connClosed, clientVars, rpos, wire, terminateCalls, crashed>>

\* ws.go:124-150: conn.Read(frameHeader) and the parse.
ReadHeader(g) ==
    /\ rpc[g] = "header"
    /\ ~crashed
    /\ ReadReturns
    /\ IF ReadErr
       THEN ReadFail(g, "header")
       ELSE LET f == ParseHeader(ReadBuf(2), rpos) IN
            /\ rpos' = rpos + ReadCount(2)
            /\ ReadGoes(g, f, CASE f.L = 126 -> "ext16"
                                [] f.L = 127 -> "ext64"
                                [] OTHER -> AfterLength(f))
            /\ UNCHANGED <<chanClosed, crashed, rerr>>
    /\ UNCHANGED <<req, handlerVars, sendVars, connClosed, clientVars,
                   ioVars, terminateCalls>>

\* ws.go:158-167: the 16-bit extended length.
ReadExt16(g) ==
    /\ rpc[g] = "ext16"
    /\ ~crashed
    /\ ReadReturns
    /\ IF ReadErr
       THEN ReadFail(g, "ext")
       ELSE LET extLen == ReadBuf(2)
                f == [fr[g] EXCEPT !.extLen = extLen,
                                   !.payloadLen = PayloadLen16(fr[g].payloadLen, extLen)]
            IN
            /\ rpos' = rpos + ReadCount(2)
            /\ ReadGoes(g, f, AfterLength(f))
            /\ UNCHANGED <<chanClosed, crashed, rerr>>
    /\ UNCHANGED <<req, handlerVars, sendVars, connClosed, clientVars,
                   ioVars, terminateCalls>>

\* ws.go:168-181: the 64-bit extended length.
ReadExt64(g) ==
    /\ rpc[g] = "ext64"
    /\ ~crashed
    /\ ReadReturns
    /\ IF ReadErr
       THEN ReadFail(g, "ext")
       ELSE LET extLen == ReadBuf(8)
                f == [fr[g] EXCEPT !.extLen = extLen,
                                   !.payloadLen = PayloadLen64(fr[g].payloadLen, extLen)]
            IN
            /\ rpos' = rpos + ReadCount(8)
            /\ ReadGoes(g, f, AfterLength(f))
            /\ UNCHANGED <<chanClosed, crashed, rerr>>
    /\ UNCHANGED <<req, handlerVars, sendVars, connClosed, clientVars,
                   ioVars, terminateCalls>>

\* ws.go:184-194: the mask key.
ReadMask(g) ==
    /\ rpc[g] = "mask"
    /\ ~crashed
    /\ ReadReturns
    /\ IF ReadErr
       THEN ReadFail(g, "mask")
       ELSE LET f == [fr[g] EXCEPT !.maskKey = ReadBuf(4)] IN
            /\ rpos' = rpos + ReadCount(4)
            /\ ReadGoes(g, f, AfterMask(f))
            /\ UNCHANGED <<chanClosed, crashed, rerr>>
    /\ UNCHANGED <<req, handlerVars, sendVars, connClosed, clientVars,
                   ioVars, terminateCalls>>

\* ws.go:197-241: the payload is read, unmasked when the frame is masked,
\* and the frame is dispatched on its opcode.
ReadPayload(g) ==
    /\ rpc[g] = "payload"
    /\ ~crashed
    /\ ReadReturns
    /\ IF ReadErr
       THEN ReadFail(g, "payload") /\ UNCHANGED terminateCalls
       ELSE LET f == fr[g]
                buf == ReadBuf(f.payloadLen)
                payload == IF f.masked THEN XorMask(buf, f.maskKey) ELSE buf
                did == Dispatch(f)
            IN
            /\ rpos' = rpos + ReadCount(f.payloadLen)
            /\ decoded' = Append(decoded, Decoded(g, f, payload, did))
            /\ fr' = [fr EXCEPT ![g] = NoFrame]
            /\ rpc' = [rpc EXCEPT ![g] = CASE did = "terminate" -> "tWrite"
                                           [] did = "pong" -> "pong"
                                           [] OTHER -> "select"]
            /\ terminateCalls' = terminateCalls + (IF did = "terminate" THEN 1 ELSE 0)
            /\ UNCHANGED <<chanClosed, crashed, rerr>>
    /\ UNCHANGED <<req, handlerVars, sendVars, connClosed, clientVars, ioVars>>

\* ws.go:234-235: conn.Write(pongFrame); the result is not looked at.
ReadPong(g) ==
    /\ rpc[g] = "pong"
    /\ ~crashed
    /\ Write(g, "pong", pongFrame)
    /\ rpc' = [rpc EXCEPT ![g] = "select"]
    /\ UNCHANGED <<req, handlerVars, chanClosed, sendVars, fr, rerr, decoded,
                   connClosed, clientVars, rpos, terminateCalls, crashed>>

\* ws.go:229-230: terminate(conn), then return.
ReadTerminateWrite(g) ==
    /\ rpc[g] = "tWrite"
    /\ ~crashed
    /\ terminateWrite(g)
    /\ rpc' = [rpc EXCEPT ![g] = "tClose"]
    /\ UNCHANGED <<req, handlerVars, chanClosed, sendVars, fr, rerr, decoded,
                   connClosed, clientVars, rpos, terminateCalls, crashed>>

ReadTerminateClose(g) ==
    /\ rpc[g] = "tClose"
    /\ ~crashed
    /\ terminateClose
    /\ rpc' = [rpc EXCEPT ![g] = "done"]
    /\ UNCHANGED <<req, handlerVars, chanClosed, sendVars, fr, rerr, decoded,
                   ioVars, terminateCalls, crashed>>

handleIncomingMessages(g) ==
    \/ ReadSelect(g)
    \/ ReadHeader(g)
    \/ ReadExt16(g)
    \/ ReadExt64(g)
    \/ ReadMask(g)
    \/ ReadPayload(g)
    \/ ReadPong(g)
    \/ ReadTerminateWrite(g)
    \/ ReadTerminateClose(g)

\* ------------------------------------------------------------------ client
\* The client sends one more frame; its first k bytes arrive at once, the
\* rest stays in flight.
ClientSend(f, k) ==
    /\ it >= 1 /\ ~connClosed /\ ~crashed
    /\ peer = "open"
    /\ inflight = <<>>
    /\ sendsLeft > 0
    /\ k = Len(f) \/ splitsLeft > 0
    /\ rx' = rx \o SubSeq(f, 1, k)
    /\ inflight' = SubSeq(f, k + 1, Len(f))
    /\ sendsLeft' = sendsLeft - 1
    /\ splitsLeft' = splitsLeft - (IF k < Len(f) THEN 1 ELSE 0)
    /\ UNCHANGED <<req, handlerVars, chanClosed, sendVars, readVars, connClosed,
                   peer, rpos, ioVars, terminateCalls, crashed>>

\* The bytes in flight arrive at the server.
Deliver ==
    /\ ~connClosed /\ ~crashed
    /\ peer # "reset"
    /\ inflight # <<>>
    /\ rx' = rx \o inflight
    /\ inflight' = <<>>
    /\ UNCHANGED <<req, handlerVars, chanClosed, sendVars, readVars, connClosed,
                   peer, sendsLeft, splitsLeft, rpos, ioVars, terminateCalls, crashed>>

\* The client closes its end: the server reads EOF after what was sent.
PeerClose ==
    /\ it >= 1 /\ ~connClosed /\ ~crashed
    /\ peer = "open"
    /\ peer' = "eof"
    /\ UNCHANGED <<req, handlerVars, chanClosed, sendVars, readVars, connClosed,
                   rx, inflight, sendsLeft, splitsLeft, rpos, ioVars, terminateCalls, crashed>>

\* The connection is reset: reads and writes fail from here on.
PeerReset ==
    /\ it >= 1 /\ ~connClosed /\ ~crashed
    /\ peer # "reset"
    /\ peer' = "reset"
    /\ inflight' = <<>>
    /\ rpos' = Len(rx)
    /\ UNCHANGED <<req, handlerVars, chanClosed, sendVars, readVars, connClosed,
                   rx, sendsLeft, splitsLeft, ioVars, terminateCalls, crashed>>

Client ==
    \/ \E f \in ClientFrames : \E k \in 1..Len(f) : ClientSend(f, k)
    \/ Deliver
    \/ PeerClose
    \/ PeerReset

\* The client on a transport that hands every frame over in one piece.
ClientWhole ==
    \/ \E f \in ClientFrames : ClientSend(f, Len(f))
    \/ PeerClose
    \/ PeerReset

\* ----------------------------------------------------------- specification
Next ==
    \/ websocketHandler
    \/ \E g \in Gens : sendMessages(g)
    \/ \E g \in Gens : handleIncomingMessages(g)
    \/ Client

Spec == Init /\ [][Next]_vars

\* The behaviours in which no frame arrives in pieces.
NextWhole ==
    \/ websocketHandler
    \/ \E g \in Gens : sendMessages(g)
    \/ \E g \in Gens : handleIncomingMessages(g)
    \/ ClientWhole

SpecWhole == Init /\ [][NextWhole]_vars

\* The handler's steps once it has the connection (ws.go:81-109).
HandlerLoop ==
    \/ HandlerRange
    \/ HandlerWait
    \/ HandlerTerminateWrite
    \/ HandlerTerminateClose
    \/ HandlerReturn

\* Fair scheduling: the handler and every started loop keep getting their
\* turn (the ticker keeps ticking, a blocked call that can return returns).
\* Nothing is assumed of the client.
Fairness ==
    /\ WF_vars(HandlerLoop)
    /\ \A g \in Gens : WF_vars(sendMessages(g))
    /\ \A g \in Gens : WF_vars(handleIncomingMessages(g))

SpecFair == Init /\ [][NextWhole]_vars /\ Fairness

\* ------------------------------------------------------ masking round trip
\* The payloads and mask keys of the round trip.
PayloadBytes == {104, 105}
Payloads == UNION {[1..n -> PayloadBytes] : n \in 0..MaxPayload}
MaskKeys == RandKeys \cup {<<0, 0, 0, 0>>, <<255, 255, 255, 255>>}

\* A text frame whose payload went through the masking transform of
\* sendMessages (ws.go:294-333), for any payload of up to 125 bytes.
MaskedText(payload, mask_key) ==
    <<129, 128 + Len(payload)>> \o mask_key \o XorMask(payload, mask_key)

\* The connection after the handshake, when one such frame has arrived.
InitMask ==
    /\ req = [upgrade |-> "websocket", key |-> SampleKey, hijack |-> "ok", others |-> 0]
    /\ hpc = "wait"
    /\ it = 1
    /\ httpStatus = 0
    /\ hijacked = TRUE
    /\ acceptKey = SampleAccept
    /\ chanClosed = [g \in Gens |-> FALSE]
    /\ spc = [g \in Gens |-> IF g = 1 THEN "select" ELSE "idle"]
    /\ rpc = [g \in Gens |-> IF g = 1 THEN "select" ELSE "idle"]
    /\ fr = [g \in Gens |-> NoFrame]
    /\ rerr = [g \in Gens |-> "none"]
    /\ connClosed = FALSE
    /\ peer = "open"
    /\ \E payload \in Payloads : \E mask_key \in MaskKeys :
          rx = MaskedText(payload, mask_key)
    /\ rpos = 0
    /\ inflight = <<>>
    /\ sendsLeft = 0
    /\ splitsLeft = 0
    /\ wire = <<[g |-> 1, what |-> "handshake", bytes |-> <<>>]>>
    /\ decoded = <<>>
    /\ terminateCalls = 0
    /\ lateIO = FALSE
    /\ crashed = FALSE

\* The read loop decodes the frame.
NextMask ==
    \/ ReadSelect(1)
    \/ ReadHeader(1)
    \/ ReadMask(1)
    \/ ReadPayload(1)

SpecMask == InitMask /\ [][NextMask]_vars

\* ---------------------------------------------------- one frame, decoded
\* The connection after the handshake of the first iteration, when `stream`
\* has arrived from the client and nothing of it was read yet.
Established(stream) ==
    /\ req = [upgrade |-> "websocket", key |-> SampleKey, hijack |-> "ok", others |-> 0]
    /\ hpc = "wait"
    /\ it = 1
    /\ httpStatus = 0
    /\ hijacked = TRUE
    /\ acceptKey = SampleAccept
    /\ chanClosed = [g \in Gens |-> FALSE]
    /\ spc = [g \in Gens |-> IF g = 1 THEN "select" ELSE "idle"]
    /\ rpc = [g \in Gens |-> IF g = 1 THEN "select" ELSE "idle"]
    /\ fr = [g \in Gens |-> NoFrame]
    /\ rerr = [g \in Gens |-> "none"]
    /\ connClosed = FALSE
    /\ peer = "open"
    /\ rx = stream
    /\ rpos = 0
    /\ inflight = <<>>
    /\ sendsLeft = 0
    /\ splitsLeft = 0
    /\ wire = <<[g |-> 1, what |-> "handshake", bytes |-> <<>>]>>
    /\ decoded = <<>>
    /\ terminateCalls = 0
    /\ lateIO = FALSE
    /\ crashed = FALSE

\* RSV1-3, bits 6-4 of the first header byte.
Rsv(b) == (b \div 16) % 8

\* Masked client frames with FIN and some of RSV1-3 set: text, close, ping
\* and pong, with and without a payload.
RsvFrames ==
    {ClientFrame(128 + 16 * r + opcode, payload) :
        r \in 1..7, opcode \in {1, 8, 9, 10}, payload \in {<<>>, <<104, 105>>}}

InitRsv == \E f \in RsvFrames : Established(f)

NextRsv ==
    \/ ReadSelect(1)
    \/ ReadHeader(1)
    \/ ReadMask(1)
    \/ ReadPayload(1)
    \/ ReadPong(1)
    \/ ReadTerminateWrite(1)
    \/ ReadTerminateClose(1)

SpecRsv == InitRsv /\ [][NextRsv]_vars

\* The frames the server encodes, the text frame with more mask keys than
\* RandKeys has, and what each is meant to carry: FIN, the opcode and the
\* payload.
EchoKeys == [1..4 -> {0, 55, 255}]
EncodedFrames ==
    {TextFrame(mask_key) : mask_key \in EchoKeys} \cup {pongFrame, closeFrameWithReason}
Intended ==
    {[fin |-> TRUE, opcode |-> 1, payload |-> <<104, 105>>],
     [fin |-> TRUE, opcode |-> 10, payload |-> <<>>],
     [fin |-> TRUE, opcode |-> 8, payload |-> <<3, 232, 79, 75>>]}

\* One encoded frame is fed to the read loop.
InitEcho == \E f \in EncodedFrames : Established(f)

NextEcho ==
    \/ ReadSelect(1)
    \/ ReadHeader(1)
    \/ ReadMask(1)
    \/ ReadPayload(1)
    \/ ReadTerminateWrite(1)
    \/ ReadTerminateClose(1)

SpecEcho == InitEcho /\ [][NextEcho]_vars

\* Well-formed masked client frames of the three length tiers: up to 125
\* bytes (with and without a payload), 126 bytes behind a 16-bit length,
\* and 65536 bytes behind a 64-bit length.
\* The payload is n times the byte 'h'; masked with the 4-byte key it is
\* the masked form of "hhhh" over and over.
MaskedH == XorMask(<<104, 104, 104, 104>>, ClientKey)
MaskedLong(n) == [i \in 1..n |-> MaskedH[((i - 1) % 4) + 1]]
Frame126 == <<129, 254, 0, 126>> \o ClientKey \o MaskedLong(126)
Frame127 == <<129, 255, 0, 0, 0, 0, 0, 1, 0, 0>> \o ClientKey \o MaskedLong(65536)
TierFrames == {TextHi, PingAbc, PingEmpty, Frame126, Frame127}

\* One or two of them have arrived, whole, on an established connection.
InitAligned ==
    \E f1 \in TierFrames : \E f2 \in TierFrames \cup {<<>>} : Established(f1 \o f2)

\* The read loop, followed until it has decoded MaxDecoded frames.
Follow == Len(decoded) < MaxDecoded

NextAligned ==
    \/ Follow /\ ReadSelect(1)
    \/ Follow /\ ReadHeader(1)
    \/ Follow /\ ReadExt16(1)
    \/ Follow /\ ReadExt64(1)
    \/ Follow /\ ReadMask(1)
    \/ Follow /\ ReadPayload(1)
    \/ Follow /\ ReadPong(1)

SpecAligned == InitAligned /\ [][NextAligned]_vars

\* ------------------------------------------------------------ observations
\* The frames on the stream (everything written but the handshake response).
IsFrame(w) == w.what # "handshake"

\* The frames on the stream with opcode 8.
CloseFramesSent ==
    {i \in DOMAIN wire : IsFrame(wire[i]) /\ Low4(wire[i].bytes[1]) = 8}

\* The payloads of the ping frames iteration g's read loop decoded, in order.
PingPayloads(g) ==
    LET pings == SelectSeq(decoded, LAMBDA d : d.g = g /\ d.opcode = 9)
    IN  [i \in DOMAIN pings |-> pings[i].payload]

\* The payloads of the pong frames iteration g's read loop wrote, in order.
PongPayloads(g) ==
    LET pongs == SelectSeq(wire, LAMBDA w : w.g = g /\ IsFrame(w)
                                            /\ Low4(w.bytes[1]) = 10)
    IN  [i \in DOMAIN pongs |-> SubSeq(pongs[i].bytes, 3, Len(pongs[i].bytes))]

\* The read loop of iteration g is between the header and the payload of a
\* frame whose header starts at rx[fr[g].start + 1].
InFrame(g) == rpc[g] \in {"mask", "payload"} /\ ~connClosed /\ peer # "reset"

\* The 7-bit length field of the frame iteration g is reading, and the n
\* bytes of the stream that follow its 2-byte header.
StreamL(g) == Low7(rx[fr[g].start + 2])
AfterHeader(g, n) == SubSeq(rx, fr[g].start + 3, fr[g].start + 2 + n)

\* ------------------------------------------------------------------ claims

\* C1: every frame the server writes to the stream has MASK (bit 7 of
\* byte 1) = 0 and no mask-key field: its length is 2 + the length field.
C1_ServerFramesUnmasked ==
    \A i \in DOMAIN wire :
        IsFrame(wire[i]) =>
            /\ Bit7(wire[i].bytes[2]) = 0
            /\ Len(wire[i].bytes) = 2 + Low7(wire[i].bytes[2])

\* C2: a frame received with MASK = 0 is a protocol violation: the read loop
\* never dispatches it the way it dispatches a masked frame (as a message,
\* a ping, a pong or an unhandled opcode).
C2_UnmaskedFrameRejected ==
    \A i \in DOMAIN decoded :
        ~decoded[i].masked =>
            decoded[i].did \notin {"message", "pong", "pongReceived", "unhandled"}

\* C3: for every ping frame decoded, whatever its payload P, the server
\* writes exactly one pong frame, and its payload is P: while the stream
\* takes writes and no pong is pending, the pongs written are the pings
\* decoded.
C3_PongEchoesPing ==
    \A g \in Gens :
        (rpc[g] # "pong" /\ WriteOK) => PongPayloads(g) = PingPayloads(g)

\* C4: a read loop that has decoded a close frame (opcode 8, any payload
\* length) replies with terminate (close frame, then the stream is closed)
\* and stops: it is in terminate, or done with the stream closed.
C4_CloseFrameAnswered ==
    \A i \in DOMAIN decoded :
        decoded[i].opcode = 8 =>
            \/ rpc[decoded[i].g] \in {"tWrite", "tClose"}
            \/ rpc[decoded[i].g] = "done" /\ connClosed

\* C5: at most one close frame is ever on the stream of one connection.
C5_AtMostOneCloseFrame == Cardinality(CloseFramesSent) <= 1

\* C5 witness: terminate was called more than once, and one close frame
\* is on the stream.
C5_Witness == terminateCalls >= 2 /\ Cardinality(CloseFramesSent) = 1

\* C6: the teardown step terminate runs at most once for a connection.
C6_TeardownOnce == terminateCalls <= 1

\* C7: once the stream is closed, no read and no write is issued on it.
C7_NoIOAfterClose == ~lateIO

\* C8: when the length field of a received frame is 127, the payload length
\* the read loop uses is the big-endian 64-bit value of the 8 bytes that
\* follow the header.
C8_Length64Honoured ==
    \A g \in Gens :
        (InFrame(g) /\ StreamL(g) = 127 /\ Len(rx) >= fr[g].start + 10) =>
            fr[g].payloadLen = BE64(AfterHeader(g, 8))

\* C9: when the length field L is at most 125 the payload length is L; when
\* it is 126 the payload length is the big-endian 16-bit value of the 2 bytes
\* after the header, and the mask key is read from the bytes after those.
C9_Length7And16 ==
    \A g \in Gens :
        InFrame(g) =>
            /\ StreamL(g) <= 125 => fr[g].payloadLen = StreamL(g)
            /\ StreamL(g) = 126 =>
                  /\ rpc[g] = "mask" => rpos = fr[g].start + 4
                  /\ Len(rx) >= fr[g].start + 4 =>
                        fr[g].payloadLen = BE16(AfterHeader(g, 2))

\* The positions of the read loop at which it waits in conn.Read.
ReadPcs == {"header", "ext16", "ext64", "mask", "payload"}

\* C10: a failed read at any step of a frame (the loop is at a read, the
\* read returns an error, the loop moves) leaves terminationChan closed and
\* the loop stopped, and delivers, writes and terminates nothing.
C10_ReadFailureAborts ==
    [][\A g \in Gens :
          (rpc[g] \in ReadPcs /\ ReadErr /\ rpc'[g] # rpc[g]) =>
              /\ chanClosed'[g]
              /\ rpc'[g] \in {"done", "panic"}
              /\ decoded' = decoded
              /\ wire' = wire
              /\ terminateCalls' = terminateCalls]_vars

\* C10 witness: a read failed after the header of a frame had been read.
C10_Witness ==
    \E g \in Gens :
        rerr[g] \in {"ext", "mask", "payload"} /\ rpc[g] = "done" /\ chanClosed[g]

\* The opcodes the protocol reserves: 3-7 and 11-15.
ReservedOpcodes == (3..7) \cup (11..15)

\* C11: a read loop that has decoded a frame with a reserved opcode fails the
\* connection: it is in terminate (close frame, then the stream is closed) or
\* done with the stream closed; it is not back at reading frames.
C11_ReservedOpcodeFails ==
    \A i \in DOMAIN decoded :
        decoded[i].opcode \in ReservedOpcodes =>
            \/ rpc[decoded[i].g] \in {"tWrite", "tClose"}
            \/ rpc[decoded[i].g] = "done" /\ connClosed

\* C12: for a request whose Upgrade header is not exactly "websocket" the
\* handler answers 400 and returns: the stream is never hijacked, nothing
\* (no 101 response) is written to it, and no read or send loop is started.
C12_NonUpgradeRejected ==
    req.upgrade # "websocket" =>
        /\ hpc \in {"check", "done"}
        /\ httpStatus = (IF hpc = "check" THEN 0 ELSE 400)
        /\ ~hijacked
        /\ wire = <<>>
        /\ \A g \in Gens : spc[g] = "idle" /\ rpc[g] = "idle"

\* C12 witness: a request with another Upgrade value has been answered 400.
C12_Witness ==
    req.upgrade \in {"Websocket", "h2c"} /\ hpc = "done" /\ httpStatus = 400

\* C13: a request with Upgrade: websocket and a missing or empty
\* Sec-WebSocket-Key is answered 400; the stream is not hijacked and no 101
\* response is written.
C13_MissingKeyRejected ==
    (req.upgrade = "websocket" /\ req.key = "") =>
        /\ ~hijacked
        /\ wire = <<>>
        /\ hpc = "done" => httpStatus = 400

\* C14: when the ResponseWriter is no Hijacker the handler does not panic; it
\* answers 500 and returns, and nothing is written to the stream.
C14_NonHijackerRejected ==
    (req.upgrade = "websocket" /\ req.hijack = "unsupported") =>
        /\ hpc # "panic"
        /\ hpc \notin {"check", "hijack"} => (hpc = "done" /\ httpStatus = 500)
        /\ wire = <<>>

\* C15: the 101 response is written (and flushed) before any frame traffic:
\* every frame on the stream comes after the 101 response of the iteration
\* that wrote it, and nothing has been read from the stream unless the 101
\* response is the first thing on it.
C15_HandshakeFirst ==
    /\ \A i \in DOMAIN wire :
          IsFrame(wire[i]) =>
              \E j \in 1..(i - 1) :
                  wire[j].what = "handshake" /\ wire[j].g = wire[i].g
    /\ (rpos > 0 \/ decoded # <<>> \/ \E g \in Gens : rpc[g] \in ReadPcs) =>
          (wire # <<>> /\ wire[1].what = "handshake")

\* C15 witness: frames have been written and read after the 101 response.
C15_Witness ==
    /\ decoded # <<>>
    /\ \E i \in DOMAIN wire : IsFrame(wire[i])

\* C16: the accept key the handler computes for the key
\* dGhlIHNhbXBsZSBub25jZQ== is s3pPLMBiTxaQ9kYGzzhZRbK+xOo=, whatever else
\* the request carries and at every later point of the connection.
C16_AcceptKeyOfSample ==
    (req.key = SampleKey /\ req.upgrade = "websocket"
        /\ hpc \notin {"check", "hijack"}) =>
            acceptKey = SampleAccept

\* C16 witness: the 101 response has been written for the sample key.
C16_Witness ==
    /\ req.key = SampleKey
    /\ acceptKey = SampleAccept
    /\ \E i \in DOMAIN wire : wire[i].what = "handshake"

\* The frames written, in the order of their conn.Write calls, and the bytes
\* they leave on the stream.
FramesWritten == SelectSeq(wire, IsFrame)
RECURSIVE Concat(_, _)
Concat(ws, n) == IF n = 0 THEN <<>> ELSE Concat(ws, n - 1) \o ws[n].bytes
ServerStream == Concat(FramesWritten, Len(FramesWritten))

\* The frames the three writers build.
ServerFrames ==
    {TextFrame(mask_key) : mask_key \in RandKeys} \cup {pongFrame, closeFrameWithReason}

\* A receiver's view of a byte stream: the frames it holds, cut according to
\* each frame's own header (MASK bit and 7-bit length); a rest that is not a
\* whole frame is returned as the last element.
FrameSize(stream) == 2 + (IF Bit7(stream[2]) = 1 THEN 4 ELSE 0) + Low7(stream[2])
RECURSIVE FramesOf(_)
FramesOf(stream) ==
    IF stream = <<>> THEN <<>>
    ELSE IF Len(stream) < 2 \/ Len(stream) < FrameSize(stream) THEN <<stream>>
    ELSE <<SubSeq(stream, 1, FrameSize(stream))>>
             \o FramesOf(SubSeq(stream, FrameSize(stream) + 1, Len(stream)))

\* C18: frames are never interleaved on the stream: cutting the bytes the
\* server wrote into frames gives back, in order, the text, pong and close
\* frames of the goroutines, each whole and contiguous.
C18_FramesContiguous ==
    /\ FramesOf(ServerStream) = [i \in DOMAIN FramesWritten |-> FramesWritten[i].bytes]
    /\ \A i \in DOMAIN wire :
          IsFrame(wire[i]) =>
              wire[i].bytes \in ServerFrames

\* C18 witness: the three writers have each put a frame on the stream.
C18_Witness ==
    /\ \E i \in DOMAIN wire : wire[i].what = "text"
    /\ \E i \in DOMAIN wire : wire[i].what = "pong"
    /\ \E i \in DOMAIN wire : wire[i].what = "close"

\* C19: after a transport error no further frame is written: once a read of
\* handleIncomingMessages has failed, no step puts a close frame or any other
\* frame on the stream.
C19_NoFrameAfterError ==
    [][(\E g \in Gens : rerr[g] # "none") => FramesWritten' = FramesWritten]_vars

\* C20: no error on a connection is fatal to the process: no goroutine of
\* the connection ends in a panic that nothing recovers.
C20_NoProcessCrash == ~crashed

\* C21: termination is broadcast before the stream is closed: a step that
\* closes the stream is taken only when the terminationChan of the running
\* iteration is already closed.
C21_BroadcastBeforeClose ==
    [][(~connClosed /\ connClosed') => chanClosed[it]]_vars

\* The number of bytes the read at which iteration g's loop waits asks for:
\* the length of the buffer it passes to conn.Read.
FieldSize(g) ==
    CASE rpc[g] = "header" -> 2
      [] rpc[g] = "ext16" -> 2
      [] rpc[g] = "ext64" -> 8
      [] rpc[g] = "mask" -> 4
      [] rpc[g] = "payload" -> fr[g].payloadLen
      [] OTHER -> 0

\* C22: the decoder consumes exactly the bytes of each field, however the
\* stream delivers them: a read that returns without an error has taken
\* the whole field (2, 2 or 8, 4, payload-length bytes) from the stream.
C22_ExactConsumption ==
    [][\A g \in Gens :
          (rpc[g] \in ReadPcs /\ ~ReadErr /\ rpc'[g] # rpc[g]) =>
              rpos' = rpos + FieldSize(g)]_vars

\* C23: a received frame with any of RSV1-3 set fails the connection and is
\* never dispatched as a normal frame: when the first frame on the stream
\* has an RSV bit set and the read loop has decoded it, the loop is in
\* terminate (or the stream is closed already), and it has not handled the
\* frame as a message, a ping, a pong or an unhandled opcode.
C23_RsvFrameFails ==
    (~connClosed /\ rx # <<>> /\ Rsv(rx[1]) # 0 /\ decoded # <<>>) =>
        /\ rpc[decoded[1].g] \in {"tWrite", "tClose"}
        /\ decoded[1].did \notin {"message", "pong", "pongReceived", "unhandled"}

\* The length field of every frame the server encodes is the number of
\* payload bytes that follow it (after the mask key, when there is one).
EncodedLengths == \A f \in EncodedFrames : Len(f) = FrameSize(f)

\* C24: encode-then-decode reproduces the fields of the frames the server
\* encodes: the length fields are right, and what the read loop decodes from
\* an encoded frame is one frame with the intended FIN, opcode and payload,
\* the opcode being the one on the stream.
C24_EncodeDecode ==
    /\ EncodedLengths
    /\ Len(decoded) <= 1
    /\ \A i \in DOMAIN decoded :
          /\ [fin |-> decoded[i].fin, opcode |-> decoded[i].opcode,
               payload |-> decoded[i].payload] \in Intended
          /\ IF connClosed THEN decoded[i].opcode = 8
                            ELSE decoded[i].opcode = Low4(rx[1])

\* C24 witness: terminate's close frame has been decoded, with its status
\* 1000 and its reason "OK".
C24_Witness ==
    /\ decoded # <<>>
    /\ decoded[1].opcode = 8
    /\ decoded[1].payload = <<3, 232, 79, 75>>
    /\ rpc[1] = "done"

\* C25: when Hijack returns an error the handler answers 500 and returns:
\* no 101 response (nothing at all) is written to the stream, no read or
\* send loop is started, terminate is not called and no stream is closed.
C25_HijackErrorRejected ==
    (req.upgrade = "websocket" /\ req.hijack = "fails") =>
        /\ hpc \in {"check", "hijack", "done"}
        /\ httpStatus = (IF hpc = "done" THEN 500 ELSE 0)
        /\ ~hijacked
        /\ wire = <<>>
        /\ \A g \in Gens : spc[g] = "idle" /\ rpc[g] = "idle"
        /\ terminateCalls = 0
        /\ ~connClosed

\* C25 witness: a request whose Hijack failed has been answered 500.
C25_Witness ==
    req.upgrade = "websocket" /\ req.hijack = "fails" /\ hpc = "done" /\ httpStatus = 500

\* C26: terminationChan is closed at most once per channel: no send loop
\* and no read loop ever executes close(terminationChan) on a channel that
\* is closed already.
C26_ClosedAtMostOnce ==
    \A g \in Gens : spc[g] # "panic" /\ rpc[g] # "panic"

\* C27: for one request the handler writes the 101 response once and starts
\* one read loop and one send loop, whatever the number of header fields:
\* the body of the handshake runs once, and no second pair of loops exists.
C27_OneHandshake ==
    /\ it <= 1
    /\ Cardinality({i \in DOMAIN wire : wire[i].what = "handshake"}) <= 1
    /\ Cardinality({g \in Gens : rpc[g] # "idle"}) <= 1
    /\ Cardinality({g \in Gens : spc[g] # "idle"}) <= 1

\* C28: after the server's close frame no data frame is written: no text
\* frame of sendMessages follows a close frame on the stream.
C28_NoTextAfterClose ==
    \A i \in DOMAIN wire : \A j \in DOMAIN wire :
        (i < j /\ wire[i].what = "close") => wire[j].what # "text"

\* A loop that has exited, or was never started.
Exited(pc) == pc \in {"idle", "done", "panic"}

\* C29: once a read loop has exited (read error, peer gone, or a close
\* frame processed), under fair scheduling the handler eventually returns
\* with every read loop and every send loop of the connection terminated.
C29_EventuallyTornDown ==
    (\E g \in Gens : rpc[g] \in {"done", "panic"}) ~>
        (hpc = "done" /\ \A g \in Gens : Exited(spc[g]) /\ Exited(rpc[g]))

\* The layout of the masked frame that starts after `at` bytes of a stream
\* (ws.go:153-156): the size of its header with extended length and mask
\* key, and the length of its payload.
SentHead(stream, at) ==
    CASE Low7(stream[at + 2]) = 126 -> 8
      [] Low7(stream[at + 2]) = 127 -> 14
      [] OTHER -> 6
SentLen(stream, at) ==
    CASE Low7(stream[at + 2]) = 126 -> BE16(SubSeq(stream, at + 3, at + 4))
      [] Low7(stream[at + 2]) = 127 -> BE64(SubSeq(stream, at + 3, at + 10))
      [] OTHER -> Low7(stream[at + 2])

\* The frames of a stream of whole frames, from offset `at` on: where each
\* starts, its opcode, and where its payload lies.
RECURSIVE SentFrames(_, _)
SentFrames(stream, at) ==
    IF at >= Len(stream) THEN <<>>
    ELSE <<[start |-> at, opcode |-> Low4(stream[at + 1]),
            head |-> SentHead(stream, at), len |-> SentLen(stream, at)]>>
             \o SentFrames(stream, at + SentHead(stream, at) + SentLen(stream, at))

\* C30: the read loop stays aligned to frame boundaries: between two frames
\* it stands at the start of a frame sent or at the end of the stream, and
\* the frames it has decoded are the frames sent, in order: same opcode,
\* same payload.
C30_FrameAligned ==
    LET sent == SentFrames(rx, 0) IN
    /\ rpc[1] \in {"select", "header"} =>
          (rpos = Len(rx) \/ \E i \in DOMAIN sent : sent[i].start = rpos)
    /\ Len(decoded) <= Len(sent)
    /\ \A i \in DOMAIN decoded :
          /\ i <= Len(sent)
          /\ decoded[i].opcode = sent[i].opcode
          /\ Len(decoded[i].payload) = sent[i].len
          /\ decoded[i].payload =
                XorMask(SubSeq(rx, sent[i].start + sent[i].head + 1,
                               sent[i].start + sent[i].head + sent[i].len),
                        SubSeq(rx, sent[i].start + sent[i].head - 3,
                               sent[i].start + sent[i].head))

\* The masking transform applied twice with the same key gives the payload
\* back, for every payload and key of the round trip.
MaskTwice ==
    \A payload \in Payloads : \A mask_key \in MaskKeys :
        XorMask(XorMask(payload, mask_key), mask_key) = payload

\* C17: masking then unmasking yields the payload, and the read loop decodes
\* the frame 81 8n K mask(P, K) to P (to the text "hi" for 81 82 K ...):
\* every frame it has decoded carries P, and as a message when P is not empty.
C17_MaskRoundTrip ==
    /\ MaskTwice
    /\ \A payload \in Payloads :
          (Len(rx) = 6 + Len(payload)
              /\ rx = MaskedText(payload, SubSeq(rx, 3, 6))) =>
                  \A i \in DOMAIN decoded :
                      /\ decoded[i].payload = payload
                      /\ payload # <<>> => decoded[i].did = "message"

\* C17 witness: 81 82 01 02 03 04 69 6B has been decoded to the message "hi".
C17_Witness ==
    /\ rx = TextFrame(<<1, 2, 3, 4>>)
    /\ decoded # <<>>
    /\ decoded[1].payload = <<104, 105>>
    /\ decoded[1].did = "message"

====
